---- MODULE Spec2Model ----
(***************************************************************************)
(* A model of ragent's answer orchestration (src/ragent/agent.py) together *)
(* with the retriever it drives (src/ragent/retrievers/wikipedia.py).      *)
(*                                                                         *)
(* Texts whose characters matter (questions, queries, passage contents)    *)
(* are tuples of one-character strings; scores and distances are integers  *)
(* in hundredths (0.5 is 50).  None is the empty tuple for optional texts. *)
(***************************************************************************)
EXTENDS Integers, Sequences, FiniteSets, TLC

VARIABLES
    pc,                \* position of the answer call
    clock,             \* time.time()
    start_time,        \* answer: start_time
    question,          \* answer: the local `question`
    result,            \* answer: the local `result` dict
    scores,            \* _is_harmful_content: the local `scores`
    harmful,           \* the value _is_harmful_content returned
    search_query,      \* answer: search_query
    reform_failed,     \* the reformulation generate() raised in this call
    relevant_context,  \* answer: relevant_context
    formatted_context, \* _create_prompt: the bullets of formatted_context
    citations,         \* RAGent.citations (insertion-ordered dict, as a list)
    citation_numbers,  \* RAGent.citation_numbers (number -> url)
    max_retriever_context_length,
    index,             \* WikipediaRetriever.index
    passages,          \* WikipediaRetriever.passages
    passage_titles,    \* WikipediaRetriever.passage_titles
    passage_urls,      \* WikipediaRetriever.passage_urls
    suggestion,        \* WikipediaRetriever.suggestion
    calls,             \* capability calls issued since Start, in order
    exits,             \* exit paths the answer call has taken, in order
    previous_citations, \* citations of the result the previous call returned
    err,               \* description of the exception being handled
    last_mutation,     \* key of the result written last
    search_call,       \* WikipediaRetriever.search: the locals of a call
    retrieve_call,     \* WikipediaRetriever.retrieve: a call and its return
    chunk_call,        \* split_into_passages: a call and its return
    callers            \* two answer calls on one retriever: lines 182-188

vars == <<pc, clock, start_time, question, result, scores, harmful,
          search_query, reform_failed, relevant_context, formatted_context,
          citations, citation_numbers, max_retriever_context_length,
          index, passages, passage_titles, passage_urls, suggestion,
          calls, exits, previous_citations, err, last_mutation,
          search_call, retrieve_call, chunk_call, callers>>

----------------------------------------------------------------------------
(* Bounds of the model *)

MaxClock == 1
MaxScores == 3
MaxCandidates == 2
\* Scaled stand-ins for split_into_passages' defaults (1200 and 200), so that
\* a page of a few characters already splits into several passages.
ChunkMaxLength == 3
ChunkOverlap == 1

----------------------------------------------------------------------------
(* Program constants *)

MeanThreshold == 50
OutlierThreshold == 70
AnswerTopK == 8
DefaultPassageLimit == 21
DefaultThreshold == 50
DistanceScale == 100

RefusalMessage ==
    "I cannot provide an answer to this question as it appears to request harmful or inappropriate information."
NoResultsMessage ==
    "I found some information on this topic, but nothing directly relevant to your specific question."
ApologyPrefix ==
    "Sorry, I encountered an error while trying to answer your question: "

None == <<>>

----------------------------------------------------------------------------
(* Text helpers *)

Whitespace == {" ", "\n", "\t"}

RECURSIVE lstrip(_)
lstrip(s) ==
    IF s # <<>> /\ Head(s) \in Whitespace THEN lstrip(Tail(s)) ELSE s

RECURSIVE rstrip(_)
rstrip(s) ==
    IF s # <<>> /\ s[Len(s)] \in Whitespace
    THEN rstrip(SubSeq(s, 1, Len(s) - 1))
    ELSE s

\* str.strip()
strip(s) == rstrip(lstrip(s))

\* len(str(n)) for a positive integer n
RECURSIVE digits(_)
digits(n) == IF n < 10 THEN 1 ELSE 1 + digits(n \div 10)

RECURSIVE SumSeq(_)
SumSeq(s) == IF s = <<>> THEN 0 ELSE Head(s) + SumSeq(Tail(s))

----------------------------------------------------------------------------
(* RAGent._is_harmful_content: the decision on the classifier's scores *)

is_high_mean(sc) == SumSeq(sc) >= MeanThreshold * Len(sc)

has_high_score_outlier(sc) == \E i \in 1..Len(sc) : sc[i] >= OutlierThreshold

\* variant: both conditions are required
is_harmful_content_and(sc) ==
    IF sc = <<>>
    THEN FALSE
    ELSE is_high_mean(sc) /\ has_high_score_outlier(sc)

is_harmful_content(sc) ==
    IF sc = <<>>
    THEN FALSE
    ELSE is_high_mean(sc) \/ has_high_score_outlier(sc)

----------------------------------------------------------------------------
(* RAGent._create_prompt *)

Citation(title, url, content, number) ==
    [title |-> title, url |-> url, content |-> content, number |-> number]

\* `url in self.citations`
HasCitation(cits, url) == \E i \in 1..Len(cits) : cits[i].url = url

\* self.citations[url]
CitationOf(cits, url) ==
    cits[CHOOSE i \in 1..Len(cits) : cits[i].url = url]

\* the text placed in the bullet: strip(), then drop one closing . ! or ?
BulletText(content) ==
    LET context == strip(content) IN
    IF context # <<>> /\ context[Len(context)] \in {".", "!", "?"}
    THEN SubSeq(context, 1, Len(context) - 1)
    ELSE context

\* len(f"  - {text} [{number}].\n\n")
BulletLen(b) == 4 + Len(b.text) + 2 + digits(b.number) + 4

RECURSIVE FormattedLen(_)
FormattedLen(fc) ==
    IF fc = <<>> THEN 0 ELSE BulletLen(Head(fc)) + FormattedLen(Tail(fc))

\* variant: every entry is registered anew, a known url is not looked up
prompt_step_always_new(st, ctx) ==
    LET citation == Citation(ctx.title, ctx.url, ctx.content,
                             Len(st.citations) + 1)
    IN  [citations |-> Append(st.citations, citation),
         citation_numbers |->
            (citation.number :> ctx.url) @@ st.citation_numbers,
         formatted_context |->
            Append(st.formatted_context,
                   [text |-> BulletText(ctx.content),
                    number |-> citation.number])]

\* one iteration of the loop over `context`, on the loop state st
prompt_step(st, ctx) ==
    LET known == HasCitation(st.citations, ctx.url)
        citation ==
            IF known
            THEN CitationOf(st.citations, ctx.url)
            ELSE Citation(ctx.title, ctx.url, ctx.content,
                          Len(st.citations) + 1)
    IN  [citations |->
            IF known THEN st.citations ELSE Append(st.citations, citation),
         citation_numbers |->
            IF known
            THEN st.citation_numbers
            ELSE (citation.number :> ctx.url) @@ st.citation_numbers,
         formatted_context |->
            Append(st.formatted_context,
                   [text |-> BulletText(ctx.content),
                    number |-> citation.number])]

RECURSIVE prompt_loop(_, _, _, _)
\* variant: the loop also stops when the block length equals the maximum
prompt_loop_stops_at_maximum(st, context, i, max_len) ==
    IF i > Len(context)
    THEN st
    ELSE LET nxt == prompt_step(st, context[i]) IN
         IF FormattedLen(nxt.formatted_context) >= max_len
         THEN nxt
         ELSE prompt_loop(nxt, context, i + 1, max_len)

\* the loop of lines 87-103 from entry i of the context on
prompt_loop(st, context, i, max_len) ==
    IF i > Len(context)
    THEN st
    ELSE LET nxt == prompt_step(st, context[i]) IN
         IF FormattedLen(nxt.formatted_context) > max_len
         THEN nxt
         ELSE prompt_loop(nxt, context, i + 1, max_len)

\* variant: the ledger is not reset at the start of the prompt build
create_prompt_keeps_ledger(context, max_len) ==
    prompt_loop([citations |-> citations,
                 citation_numbers |-> citation_numbers,
                 formatted_context |-> <<>>],
                context, 1, max_len)

\* the ledger and the context block after _create_prompt(question, context)
create_prompt(context, max_len) ==
    prompt_loop([citations |-> <<>>, citation_numbers |-> <<>>,
                 formatted_context |-> <<>>],
                context, 1, max_len)

----------------------------------------------------------------------------
(* split_into_passages (retrievers/base.py) *)

\* the number of consecutive newlines of s that start at position i
RECURSIVE NewlineRun(_, _)
NewlineRun(s, i) ==
    IF i <= Len(s) /\ s[i] = "\n" THEN 1 + NewlineRun(s, i + 1) ELSE 0

\* re.split(r"\n{2,}", s), continued from position i with the piece cur
RECURSIVE re_split(_, _, _)
re_split(s, i, cur) ==
    IF i > Len(s)
    THEN <<cur>>
    ELSE IF NewlineRun(s, i) >= 2
         THEN <<cur>> \o re_split(s, i + NewlineRun(s, i), <<>>)
         ELSE re_split(s, i + 1, Append(cur, s[i]))

\* [p.strip() for p in pieces if p.strip()]
RECURSIVE strip_nonempty(_)
strip_nonempty(pieces) ==
    IF pieces = <<>>
    THEN <<>>
    ELSE IF strip(Head(pieces)) = <<>>
         THEN strip_nonempty(Tail(pieces))
         ELSE <<strip(Head(pieces))>> \o strip_nonempty(Tail(pieces))

paragraphs(content) == strip_nonempty(re_split(content, 1, <<>>))

Passage(content, title, url) ==
    [content |-> content, title |-> title, url |-> url]

\* buf[-n:] for 0 < n < len(buf)
LastChars(buf, n) == SubSeq(buf, Len(buf) - n + 1, Len(buf))

\* the loop over paras, from paragraph i on, with the buffer and the chunks
RECURSIVE chunk_loop(_, _, _, _, _, _, _)
chunk_loop(paras, i, buf, chunks, title, url, lim) ==
    IF i > Len(paras)
    THEN IF buf # <<>>
         THEN Append(chunks, Passage(buf, title, url))
         ELSE chunks
    ELSE LET p == paras[i] IN
         IF buf = <<>>
         THEN chunk_loop(paras, i + 1, p, chunks, title, url, lim)
         ELSE IF Len(buf) + 2 + Len(p) <= lim.max_length
         THEN chunk_loop(paras, i + 1, buf \o <<"\n", "\n">> \o p,
                         chunks, title, url, lim)
         ELSE chunk_loop(
                 paras, i + 1,
                 IF 0 < lim.overlap_sentences
                    /\ lim.overlap_sentences < Len(buf)
                 THEN LastChars(buf, lim.overlap_sentences)
                      \o <<"\n", "\n">> \o p
                 ELSE p,
                 Append(chunks, Passage(buf, title, url)),
                 title, url, lim)

\* a chunker whose loop starts at the second paragraph
split_skips_first(content, title, url, max_length, overlap_sentences) ==
    chunk_loop(paragraphs(content), 2, <<>>, <<>>, title, url,
               [max_length |-> max_length,
                overlap_sentences |-> overlap_sentences])

split_into_passages(content, title, url, max_length, overlap_sentences) ==
    chunk_loop(paragraphs(content), 1, <<>>, <<>>, title, url,
               [max_length |-> max_length,
                overlap_sentences |-> overlap_sentences])

----------------------------------------------------------------------------
(* The knowledge source reached through the wikipedia package *)

PageAlpha ==
    [kind |-> "page", title |-> "Alpha", url |-> "A",
     content |-> <<"a", " ", "b", "\n", "\n", "c", ".">>]

PageBeta ==
    [kind |-> "page", title |-> "Beta", url |-> "B",
     content |-> <<"d", "?">>]

\* a second page with the text of PageBeta under its own title and url
PageMirror ==
    [kind |-> "page", title |-> "Beta (mirror)", url |-> "C",
     content |-> <<"d", "?">>]

Failure(kind) == [kind |-> kind, title |-> "", url |-> "", content |-> <<>>]

Titles == {"Alpha", "Beta", "Missing", "Broken"}

\* the outcome of wikipedia.page(title)
WikiPage(title) ==
    CASE title = "Alpha" -> PageAlpha
      [] title = "Alpha (redirect)" -> PageAlpha
      [] title = "Beta" -> PageBeta
      [] title = "Beta (mirror)" -> PageMirror
      [] title = "Missing" -> Failure("PageError")
      [] title = "Ambiguous" -> Failure("DisambiguationError")
      [] OTHER -> Failure("ConnectionError")

\* every title the source knows: Titles, a redirect to PageAlpha, the mirror
\* of PageBeta and a disambiguation title
SourceTitles ==
    Titles \cup {"Alpha (redirect)", "Beta (mirror)", "Ambiguous"}

\* the title lists wikipedia.search can return
CandidateLists ==
    UNION { { c \in [1..n -> Titles] :
                \A i, j \in 1..n : i # j => c[i] # c[j] } :
            n \in 0..MaxCandidates }

\* the spelling suggestions wikipedia.search can report (None: no suggestion)
Suggestions == {None, <<"s">>}

\* the L2 distances the index can report
Distances == {10, 50}

\* SentenceTransformer.encode of one text
Embed(text) == [vector_of |-> text]

NoIndex == [built |-> FALSE, vectors |-> <<>>]

----------------------------------------------------------------------------
(* WikipediaRetriever.search: fetch_page and the collection of its results *)

\* int(ceiling(top_k * 1.8))
top_k_ceiling(top_k) == (top_k * 18 + 9) \div 10

\* wiki_search[:n]
Take(seq, n) == SubSeq(seq, 1, IF n < Len(seq) THEN n ELSE Len(seq))

\* split_into_passages(page.content, page.title, page.url) of every title
\* that resolves to a page, tabulated
PagePassages ==
    [title \in {t \in SourceTitles : WikiPage(t).kind = "page"} |->
        split_into_passages(WikiPage(title).content, WikiPage(title).title,
                            WikiPage(title).url,
                            ChunkMaxLength, ChunkOverlap)]

\* fetch_page(title) with the urls fetched so far: the passages it returns,
\* the urls fetched afterwards, and whether it raised
fetch_page(title, fetched, top_k) ==
    IF Cardinality(fetched) >= top_k
    THEN [passages |-> <<>>, fetched |-> fetched, raised |-> FALSE]
    ELSE LET page == WikiPage(title) IN
         IF page.kind \in {"DisambiguationError", "PageError"}
         THEN [passages |-> <<>>, fetched |-> fetched, raised |-> FALSE]
         ELSE IF page.kind # "page"
         THEN [passages |-> <<>>, fetched |-> fetched, raised |-> TRUE]
         ELSE IF page.url \in fetched \/ Cardinality(fetched) >= top_k
         THEN [passages |-> <<>>, fetched |-> fetched, raised |-> FALSE]
         ELSE [passages |-> PagePassages[title],
               fetched |-> fetched \cup {page.url},
               raised |-> FALSE]

\* the fetches of the candidates from position i on, one after the other:
\* the concatenation of their passages (all_passages) and whether one raised
RECURSIVE fetch_all(_, _, _, _)
fetch_all(titles, i, fetched, top_k) ==
    IF i > Len(titles)
    THEN [all_passages |-> <<>>, raised |-> FALSE]
    ELSE LET r == fetch_page(titles[i], fetched, top_k)
             rest == fetch_all(titles, i + 1, r.fetched, top_k)
         IN  [all_passages |-> r.passages \o rest.all_passages,
              raised |-> r.raised \/ rest.raised]

\* a collection that keeps every passage
unique_passages_keeps_all(all_passages, i) ==
    SubSeq(all_passages, i, Len(all_passages))

\* list(unique_passages.values()): the first passage of every content
RECURSIVE unique_passages(_, _)
unique_passages(all_passages, i) ==
    IF i > Len(all_passages)
    THEN <<>>
    ELSE IF \E j \in 1..(i - 1) :
              all_passages[j].content = all_passages[i].content
         THEN unique_passages(all_passages, i + 1)
         ELSE <<all_passages[i]>> \o unique_passages(all_passages, i + 1)

\* an index whose title array runs backwards
create_index_titles_reversed(all, encode_ok) ==
    [passages |-> [i \in 1..Len(all) |-> all[i].content],
     passage_titles |-> [i \in 1..Len(all) |-> all[Len(all) + 1 - i].title],
     passage_urls |-> [i \in 1..Len(all) |-> all[i].url],
     index |->
        IF encode_ok
        THEN [built |-> TRUE,
              vectors |-> [i \in 1..Len(all) |-> Embed(all[i].content)]]
        ELSE NoIndex,
     raised |-> IF encode_ok THEN "" ELSE "embedding failed"]

\* _create_index(passages), with the outcome of embed_model.encode: the
\* retriever state it leaves and whether it raised
create_index(all, encode_ok) ==
    [passages |-> [i \in 1..Len(all) |-> all[i].content],
     passage_titles |-> [i \in 1..Len(all) |-> all[i].title],
     passage_urls |-> [i \in 1..Len(all) |-> all[i].url],
     index |->
        IF encode_ok
        THEN [built |-> TRUE,
              vectors |-> [i \in 1..Len(all) |-> Embed(all[i].content)]]
        ELSE NoIndex,
     raised |-> IF encode_ok THEN "" ELSE "embedding failed"]

\* The outcomes of the capabilities one search call uses:
\*   first_ok, titles, suggestion: wikipedia.search(query, suggestion=True)
\*   second_ok, retitles: wikipedia.search(suggestion)
\*   encode_ok: embed_model.encode(passages)
\* (fields a call never reads are left at a fixed value)
SearchWorlds ==
    [first_ok : {FALSE}, titles : {<<>>}, suggestion : {None},
     second_ok : {FALSE}, retitles : {<<>>}, encode_ok : {FALSE}]
    \cup
    [first_ok : {TRUE}, titles : CandidateLists, suggestion : {None},
     second_ok : {FALSE}, retitles : {<<>>}, encode_ok : BOOLEAN]
    \cup
    [first_ok : {TRUE}, titles : {<<>>}, suggestion : Suggestions \ {None},
     second_ok : {FALSE}, retitles : {<<>>}, encode_ok : {FALSE}]
    \cup
    [first_ok : {TRUE}, titles : {<<>>}, suggestion : Suggestions \ {None},
     second_ok : {TRUE}, retitles : CandidateLists, encode_ok : BOOLEAN]

\* wikipedia.search(query, results=top_k_ceiling[, suggestion=True]) as
\* search issues it
SourceSearch(query, top_k, with_suggestion) ==
    [query |-> query, results |-> top_k_ceiling(top_k),
     suggestion |-> with_suggestion]

\* search(query, top_k) in the world w: the retriever state it leaves, the
\* query it returns, the error it raises ("" if none) and the calls it made
search(query, top_k, w) ==
    LET reset == [index |-> NoIndex, passages |-> <<>>,
                  passage_titles |-> <<>>, passage_urls |-> <<>>,
                  suggestion |-> None, query |-> query, raised |-> "",
                  calls |-> <<"source_search">>,
                  source_searches |-> <<SourceSearch(query, top_k, TRUE)>>]
    IN
    IF ~w.first_ok
    THEN [reset EXCEPT !.raised = "source search failed"]
    ELSE
    LET adopted == w.suggestion # None
        after == IF adopted
                 THEN [reset EXCEPT !.suggestion = w.suggestion,
                                    !.query = w.suggestion,
                                    !.calls = @ \o <<"source_search">>,
                                    !.source_searches =
                                        Append(@, SourceSearch(w.suggestion,
                                                               top_k, FALSE))]
                 ELSE reset
    IN
    IF adopted /\ ~w.second_ok
    THEN [after EXCEPT !.raised = "source search failed"]
    ELSE
    LET wiki_search == IF adopted THEN w.retitles ELSE w.titles
        fetches == fetch_all(Take(wiki_search, top_k_ceiling(top_k)), 1,
                             {}, top_k)
        fetched == IF wiki_search # <<>>
                   THEN [after EXCEPT !.calls = @ \o <<"source_fetch">>]
                   ELSE after
    IN
    IF fetches.raised
    THEN [fetched EXCEPT !.raised = "ConnectionError"]
    ELSE
    IF fetches.all_passages = <<>>
    THEN fetched
    ELSE
    LET built == create_index(unique_passages(fetches.all_passages, 1),
                              w.encode_ok)
    IN  [fetched EXCEPT !.index = built.index,
                        !.passages = built.passages,
                        !.passage_titles = built.passage_titles,
                        !.passage_urls = built.passage_urls,
                        !.raised = built.raised,
                        !.calls = @ \o <<"embedding">>]


----------------------------------------------------------------------------
(* WikipediaRetriever.retrieve *)

Min(a, b) == IF a < b THEN a ELSE b

\* the index positions IndexFlatL2.search can return for k neighbours:
\* k distinct positions, nearest first
NearestOrders(dist, n, k) ==
    { o \in [1..k -> 1..n] :
        /\ \A i, j \in 1..k : i # j => o[i] # o[j]
        /\ \A i, j \in 1..k : i < j => dist[o[i]] <= dist[o[j]]
        /\ \A m \in 1..n :
              (\A i \in 1..k : o[i] # m) =>
                  \A i \in 1..k : dist[o[i]] <= dist[m] }

\* float(1.0 - distance / 100.0), in hundredths
Score(distance) == DistanceScale - distance

\* the list `results` built from the positions the index returned
retrieve_results(ps, ts, us, dist, order) ==
    [i \in 1..Len(order) |->
        [content |-> ps[order[i]], title |-> ts[order[i]],
         url |-> us[order[i]], score |-> Score(dist[order[i]])]]

\* a filter that keeps a score equal to the threshold
AboveThreshold_inclusive(results, threshold) ==
    SelectSeq(results, LAMBDA item : item.score >= threshold)

AboveThreshold(results, threshold) ==
    SelectSeq(results, LAMBDA item : item.score > threshold)

----------------------------------------------------------------------------
(* RAGent.answer *)

\* the questions a caller asks
RawQuestions == { <<" ", "q", " ">>, <<"q">> }

\* what model.generate returns for the reformulation request
GeneratedQueries == { <<"g">> }

\* what model.generate returns for the answer prompt
GeneratedAnswers == { "Alpha is a letter [1]." }

\* the score lists the classifier returns in the orchestration
ClassifierScores == { <<0, 40>>, <<60, 60>>, <<30, 30, 75>> }

\* the values of --max-retriever-context-length an agent is built with
ContextLengths == {14, 30}

InitialResult(q) ==
    [question |-> q, suggestion |-> None, answer |-> "",
     citations |-> <<>>, has_answer |-> FALSE, processing_time |-> 0]

\* no search call is in progress
NoSearchCall ==
    [pc |-> "idle", cycle |-> 0, query |-> <<>>, top_k |-> 0,
     source_searches |-> <<>>, suggested |-> None, stale |-> FALSE,
     fetched |-> {}, tasks |-> <<>>, completed |-> <<>>,
     all_passages |-> <<>>, indexed |-> <<>>, raised |-> ""]

\* retrieve has not been called
NoRetrieveCall ==
    [called |-> FALSE, query |-> <<>>, passage_limit |-> 0, threshold |-> 0,
     dist |-> <<>>, order |-> <<>>, results |-> <<>>]

\* split_into_passages has not been called
NoChunkCall ==
    [returned |-> FALSE, content |-> <<>>, max_length |-> 0,
     overlap_sentences |-> 0, chunks |-> <<>>]

\* the answer calls that share the retriever
Callers == {"first", "second"}

\* an answer call that has not reached line 182
NoCaller == [pc |-> "idle", indexed |-> <<>>, results |-> <<>>]

InFlight == pc \notin {"idle", "returned", "raised"}

Init ==
    /\ pc = "idle"
    /\ clock = 0
    /\ start_time = 0
    /\ question = <<>>
    /\ result = InitialResult(<<>>)
    /\ scores = <<>>
    /\ harmful = FALSE
    /\ search_query = <<>>
    /\ reform_failed = FALSE
    /\ relevant_context = <<>>
    /\ formatted_context = <<>>
    /\ citations = <<>>
    /\ citation_numbers = <<>>
    /\ max_retriever_context_length \in ContextLengths
    /\ index = NoIndex
    /\ passages = <<>>
    /\ passage_titles = <<>>
    /\ passage_urls = <<>>
    /\ suggestion = None
    /\ calls = <<>>
    /\ exits = <<>>
    /\ previous_citations = <<>>
    /\ err = ""
    /\ last_mutation = "none"
    /\ search_call = NoSearchCall
    /\ retrieve_call = NoRetrieveCall
    /\ chunk_call = NoChunkCall
    /\ callers = [c \in Callers |-> NoCaller]

\* time passes while an answer call runs
Tick ==
    /\ InFlight
    /\ clock < MaxClock
    /\ clock' = clock + 1
    /\ UNCHANGED <<pc, start_time, question, result, scores, harmful,
                   search_query, reform_failed, relevant_context,
                   formatted_context, citations, citation_numbers,
                   max_retriever_context_length,
                   search_call, retrieve_call, chunk_call, callers,
                   previous_citations, index, passages,
                   passage_titles, passage_urls, suggestion, calls, exits,
                   err, last_mutation>>

\* answer(q) is entered: lines 139-150
Start(q) ==
    /\ ~InFlight
    /\ \E t \in clock..MaxClock : clock' = t /\ start_time' = t
    /\ question' = strip(q)
    /\ result' = InitialResult(strip(q))
    /\ scores' = <<>>
    /\ harmful' = FALSE
    /\ search_query' = <<>>
    /\ reform_failed' = FALSE
    /\ relevant_context' = <<>>
    /\ formatted_context' = <<>>
    /\ calls' = <<>>
    /\ exits' = <<>>
    /\ err' = ""
    /\ last_mutation' = "none"
    /\ pc' = "safety_check"
    /\ previous_citations' = result.citations
    /\ search_call' = NoSearchCall
    /\ retrieve_call' = NoRetrieveCall
    /\ UNCHANGED <<citations, citation_numbers,
                   max_retriever_context_length, chunk_call, callers, index, passages,
                   passage_titles, passage_urls, suggestion>>

\* the classifier raises inside _is_harmful_content: line 152 is outside
\* the try block, so the exception leaves answer
ClassifierRaises ==
    /\ pc = "safety_check"
    /\ calls' = Append(calls, "classifier")
    /\ err' = "classifier failed"
    /\ pc' = "raised"
    /\ UNCHANGED <<clock, start_time, question, result, scores, harmful,
                   search_query, reform_failed, relevant_context,
                   formatted_context, citations, citation_numbers,
                   max_retriever_context_length,
                   search_call, retrieve_call, chunk_call, callers,
                   previous_citations, index, passages,
                   passage_titles, passage_urls, suggestion, exits,
                   last_mutation>>

\* _is_harmful_content returns on the scores sc
SafetyCheck(sc) ==
    /\ pc = "safety_check"
    /\ calls' = Append(calls, "classifier")
    /\ scores' = sc
    /\ harmful' = is_harmful_content(sc)
    /\ pc' = "gate"
    /\ UNCHANGED <<clock, start_time, question, result, search_query,
                   reform_failed, relevant_context, formatted_context,
                   citations, citation_numbers,
                   max_retriever_context_length,
                   search_call, retrieve_call, chunk_call, callers,
                   previous_citations, index, passages,
                   passage_titles, passage_urls, suggestion, exits, err,
                   last_mutation>>

\* result["processing_time"] = time.time() - start_time
Stamp(r) == [r EXCEPT !.processing_time = clock - start_time]

\* lines 152-156
Declined ==
    /\ pc = "gate"
    /\ harmful
    /\ result' = Stamp([result EXCEPT !.answer = RefusalMessage])
    /\ last_mutation' = "processing_time"
    /\ exits' = Append(exits, "Declined")
    /\ scores' = <<>>
    /\ pc' = "returned"
    /\ UNCHANGED <<clock, start_time, question, harmful, search_query,
                   reform_failed, relevant_context, formatted_context,
                   citations, citation_numbers,
                   max_retriever_context_length,
                   search_call, retrieve_call, chunk_call, callers,
                   previous_citations, index, passages,
                   passage_titles, passage_urls, suggestion, calls, err>>

\* variant: the reformulation request is issued whatever the gate decided
Reformulate_ungated(ok, g) ==
    /\ pc = "gate"
    /\ calls' = Append(calls, "generate(reformulate)")
    /\ search_query' = IF ok THEN g ELSE question
    /\ reform_failed' = ~ok
    /\ scores' = <<>>
    /\ pc' = "search"
    /\ UNCHANGED <<clock, start_time, question, result, harmful,
                   relevant_context, formatted_context, citations,
                   citation_numbers, max_retriever_context_length,
                   search_call, retrieve_call, chunk_call, callers,
                   previous_citations, index,
                   passages, passage_titles, passage_urls, suggestion, exits,
                   err, last_mutation>>

\* variant: a failure of the reformulation request reaches the outer handler
Reformulate_propagates(ok, g) ==
    /\ pc = "gate"
    /\ ~harmful
    /\ calls' = Append(calls, "generate(reformulate)")
    /\ search_query' = IF ok THEN g ELSE question
    /\ reform_failed' = ~ok
    /\ err' = IF ok THEN err ELSE "generation failed"
    /\ scores' = <<>>
    /\ pc' = IF ok THEN "search" ELSE "except"
    /\ UNCHANGED <<clock, start_time, question, result, harmful,
                   relevant_context, formatted_context, citations,
                   citation_numbers, max_retriever_context_length,
                   search_call, retrieve_call, chunk_call, callers,
                   previous_citations, index,
                   passages, passage_titles, passage_urls, suggestion, exits,
                   last_mutation>>

\* lines 159-180: the reformulation request; generate returns g or raises
Reformulate(ok, g) ==
    /\ pc = "gate"
    /\ ~harmful
    /\ calls' = Append(calls, "generate(reformulate)")
    /\ search_query' = IF ok THEN g ELSE question
    /\ reform_failed' = ~ok
    /\ scores' = <<>>
    /\ pc' = "search"
    /\ UNCHANGED <<clock, start_time, question, result, harmful,
                   relevant_context, formatted_context, citations,
                   citation_numbers, max_retriever_context_length,
                   search_call, retrieve_call, chunk_call, callers,
                   previous_citations, index,
                   passages, passage_titles, passage_urls, suggestion, exits,
                   err, last_mutation>>

\* what a search call made with query and top_k in the world w did, for
\* the caller to look back on
Searched(query, top_k, w, s) ==
    [NoSearchCall EXCEPT
        !.pc = IF s.raised = "" THEN "returned" ELSE "raised",
        !.cycle = 1,
        !.query = s.query,
        !.top_k = top_k,
        !.source_searches = s.source_searches,
        !.suggested = IF w.first_ok THEN w.suggestion ELSE None,
        !.raised = s.raised]

\* variant: answer goes on with the query it passed to search
Search_keeps_query(w) ==
    /\ pc = "search"
    /\ LET s == search(search_query, AnswerTopK, w) IN
       /\ index' = s.index
       /\ passages' = s.passages
       /\ passage_titles' = s.passage_titles
       /\ passage_urls' = s.passage_urls
       /\ suggestion' = s.suggestion
       /\ calls' = calls \o <<"search">> \o s.calls
       /\ search_call' = Searched(search_query, AnswerTopK, w, s)
       /\ IF s.raised # ""
          THEN /\ err' = s.raised
               /\ pc' = "except"
               /\ UNCHANGED <<question, result, last_mutation>>
          ELSE /\ question' = search_query
               /\ IF s.suggestion # None
                  THEN /\ result' = [result EXCEPT
                                        !.suggestion = s.suggestion]
                       /\ last_mutation' = "suggestion"
                  ELSE UNCHANGED <<result, last_mutation>>
               /\ pc' = "retrieve"
               /\ UNCHANGED err
    /\ UNCHANGED <<clock, start_time, scores, harmful, search_query,
                   reform_failed, relevant_context, formatted_context,
                   citations, citation_numbers,
                   max_retriever_context_length,
                   retrieve_call, chunk_call, callers,
                   previous_citations, exits>>

\* lines 182-186: retriever.search(search_query, top_k=8) in the world w,
\* then the adoption of the resolved query and of the suggestion
Search(w) ==
    /\ pc = "search"
    /\ LET s == search(search_query, AnswerTopK, w) IN
       /\ index' = s.index
       /\ passages' = s.passages
       /\ passage_titles' = s.passage_titles
       /\ passage_urls' = s.passage_urls
       /\ suggestion' = s.suggestion
       /\ calls' = calls \o <<"search">> \o s.calls
       /\ search_call' = Searched(search_query, AnswerTopK, w, s)
       /\ IF s.raised # ""
          THEN /\ err' = s.raised
               /\ pc' = "except"
               /\ UNCHANGED <<question, result, last_mutation>>
          ELSE /\ question' = s.query
               /\ IF s.suggestion # None
                  THEN /\ result' = [result EXCEPT
                                        !.suggestion = s.suggestion]
                       /\ last_mutation' = "suggestion"
                  ELSE UNCHANGED <<result, last_mutation>>
               /\ pc' = "retrieve"
               /\ UNCHANGED err
    /\ UNCHANGED <<clock, start_time, scores, harmful, search_query,
                   reform_failed, relevant_context, formatted_context,
                   citations, citation_numbers,
                   max_retriever_context_length,
                   retrieve_call, chunk_call, callers,
                   previous_citations, exits>>

\* line 188 with no index or no passages: retrieve returns []
\* retriever.retrieve(query) as answer calls it, with the defaults
Retrieving(query) ==
    [NoRetrieveCall EXCEPT !.called = TRUE, !.query = query,
                           !.passage_limit = DefaultPassageLimit,
                           !.threshold = DefaultThreshold]

RetrieveNothing ==
    /\ pc = "retrieve"
    /\ ~index.built \/ passages = <<>>
    /\ calls' = Append(calls, "retrieve")
    /\ retrieve_call' = Retrieving(question)
    /\ relevant_context' = <<>>
    /\ pc' = "retrieved"
    /\ UNCHANGED <<clock, start_time, question, result, scores, harmful,
                   search_query, reform_failed, formatted_context,
                   citations, citation_numbers,
                   max_retriever_context_length,
                   search_call, chunk_call, callers,
                   previous_citations, index, passages,
                   passage_titles, passage_urls, suggestion, exits, err,
                   last_mutation>>

\* line 188 when embed_model.encode([query]) raises
RetrieveRaises ==
    /\ pc = "retrieve"
    /\ index.built /\ passages # <<>>
    /\ calls' = calls \o <<"retrieve", "embedding">>
    /\ retrieve_call' = Retrieving(question)
    /\ err' = "embedding failed"
    /\ pc' = "except"
    /\ UNCHANGED <<clock, start_time, question, result, scores, harmful,
                   search_query, reform_failed, relevant_context,
                   formatted_context, citations, citation_numbers,
                   max_retriever_context_length,
                   search_call, chunk_call, callers,
                   previous_citations, index, passages,
                   passage_titles, passage_urls, suggestion, exits,
                   last_mutation>>

\* retrieve(query, passage_limit, threshold) when the index reports the
\* distances dist and the positions order
retrieve(passage_limit, threshold, dist, order) ==
    AboveThreshold(
        retrieve_results(passages, passage_titles, passage_urls, dist,
                         order),
        threshold)

\* line 188: retriever.retrieve(question) with the default limit and
\* threshold
Retrieve ==
    /\ pc = "retrieve"
    /\ index.built /\ passages # <<>>
    /\ calls' = calls \o <<"retrieve", "embedding">>
    /\ retrieve_call' = Retrieving(question)
    /\ \E dist \in [1..Len(passages) -> Distances] :
          \E order \in NearestOrders(dist, Len(passages),
                                     Min(DefaultPassageLimit,
                                         Len(passages))) :
             relevant_context' =
                retrieve(DefaultPassageLimit, DefaultThreshold, dist, order)
    /\ pc' = "retrieved"
    /\ UNCHANGED <<clock, start_time, question, result, scores, harmful,
                   search_query, reform_failed, formatted_context,
                   citations, citation_numbers,
                   max_retriever_context_length,
                   search_call, chunk_call, callers,
                   previous_citations, index, passages,
                   passage_titles, passage_urls, suggestion, exits, err,
                   last_mutation>>

\* lines 190-194
NoResults ==
    /\ pc = "retrieved"
    /\ relevant_context = <<>>
    /\ result' = Stamp([result EXCEPT !.answer = NoResultsMessage])
    /\ last_mutation' = "processing_time"
    /\ exits' = Append(exits, "NoResults")
    /\ pc' = "finally"
    /\ UNCHANGED <<clock, start_time, question, scores, harmful,
                   search_query, reform_failed, relevant_context,
                   formatted_context, citations, citation_numbers,
                   max_retriever_context_length,
                   search_call, retrieve_call, chunk_call, callers,
                   previous_citations, index, passages,
                   passage_titles, passage_urls, suggestion, calls, err>>

\* variant: the prompt is built without the check for an empty context
CreatePrompt_unchecked ==
    /\ pc = "retrieved"
    /\ LET st == create_prompt(relevant_context,
                               max_retriever_context_length) IN
       /\ citations' = st.citations
       /\ citation_numbers' = st.citation_numbers
       /\ formatted_context' = st.formatted_context
    /\ pc' = "generate"
    /\ UNCHANGED <<clock, start_time, question, result, scores, harmful,
                   search_query, reform_failed, relevant_context,
                   max_retriever_context_length,
                   search_call, retrieve_call, chunk_call, callers,
                   previous_citations, index, passages,
                   passage_titles, passage_urls, suggestion, calls, exits,
                   err, last_mutation>>

\* line 196: _create_prompt(question, relevant_context)
CreatePrompt ==
    /\ pc = "retrieved"
    /\ relevant_context # <<>>
    /\ LET st == create_prompt(relevant_context,
                               max_retriever_context_length) IN
       /\ citations' = st.citations
       /\ citation_numbers' = st.citation_numbers
       /\ formatted_context' = st.formatted_context
    /\ pc' = "generate"
    /\ UNCHANGED <<clock, start_time, question, result, scores, harmful,
                   search_query, reform_failed, relevant_context,
                   max_retriever_context_length,
                   search_call, retrieve_call, chunk_call, callers,
                   previous_citations, index, passages,
                   passage_titles, passage_urls, suggestion, calls, exits,
                   err, last_mutation>>

\* line 196 when the loop of _create_prompt raises at entry k + 1 of the
\* context, after k entries have been processed
PromptRaises(k) ==
    /\ pc = "retrieved"
    /\ relevant_context # <<>>
    /\ LET st == create_prompt(SubSeq(relevant_context, 1, k),
                               max_retriever_context_length) IN
       /\ FormattedLen(st.formatted_context)
             <= max_retriever_context_length
       /\ citations' = st.citations
       /\ citation_numbers' = st.citation_numbers
       /\ formatted_context' = st.formatted_context
    /\ err' = "prompt failed"
    /\ pc' = "except"
    /\ UNCHANGED <<clock, start_time, question, result, scores, harmful,
                   search_query, reform_failed, relevant_context,
                   max_retriever_context_length,
                   search_call, retrieve_call, chunk_call, callers,
                   previous_citations, index, passages,
                   passage_titles, passage_urls, suggestion, calls, exits,
                   last_mutation>>

\* variant: the citations are listed last registered first
citation_list_reversed(cits) ==
    [i \in 1..Len(cits) |->
        [title |-> cits[Len(cits) + 1 - i].title,
         url |-> cits[Len(cits) + 1 - i].url]]

\* result["citations"]: the {title, url} of self.citations.values()
citation_list(cits) ==
    [i \in 1..Len(cits) |-> [title |-> cits[i].title, url |-> cits[i].url]]

\* lines 198-202 when generate returns the text answer
Generate(answer) ==
    /\ pc = "generate"
    /\ calls' = Append(calls, "generate(prompt)")
    /\ result' = [result EXCEPT !.answer = answer,
                                !.citations = citation_list(citations),
                                !.has_answer = TRUE]
    /\ last_mutation' = "has_answer"
    /\ exits' = Append(exits, "Done")
    /\ pc' = "finally"
    /\ UNCHANGED <<clock, start_time, question, scores, harmful,
                   search_query, reform_failed, relevant_context,
                   formatted_context, citations, citation_numbers,
                   max_retriever_context_length,
                   search_call, retrieve_call, chunk_call, callers,
                   previous_citations, index, passages,
                   passage_titles, passage_urls, suggestion, err>>

\* variant: the citations are copied into the result before generate is called
GenerateRaises_after_citations ==
    /\ pc = "generate"
    /\ calls' = Append(calls, "generate(prompt)")
    /\ result' = [result EXCEPT !.citations = citation_list(citations)]
    /\ last_mutation' = "citations"
    /\ err' = "generation failed"
    /\ pc' = "except"
    /\ UNCHANGED <<clock, start_time, question, scores, harmful,
                   search_query, reform_failed, relevant_context,
                   formatted_context, citations, citation_numbers,
                   max_retriever_context_length,
                   search_call, retrieve_call, chunk_call, callers,
                   previous_citations, index, passages,
                   passage_titles, passage_urls, suggestion, exits>>

\* line 198 when generate raises
GenerateRaises ==
    /\ pc = "generate"
    /\ calls' = Append(calls, "generate(prompt)")
    /\ err' = "generation failed"
    /\ pc' = "except"
    /\ UNCHANGED <<clock, start_time, question, result, scores, harmful,
                   search_query, reform_failed, relevant_context,
                   formatted_context, citations, citation_numbers,
                   max_retriever_context_length,
                   search_call, retrieve_call, chunk_call, callers,
                   previous_citations, index, passages,
                   passage_titles, passage_urls, suggestion, exits,
                   last_mutation>>

\* variant: the handler also lists the citations the ledger holds
Except_with_ledger ==
    /\ pc = "except"
    /\ result' = [result EXCEPT !.answer = ApologyPrefix \o err,
                                !.citations = citation_list(citations)]
    /\ last_mutation' = "answer"
    /\ exits' = Append(exits, "Error")
    /\ pc' = "finally"
    /\ UNCHANGED <<clock, start_time, question, scores, harmful,
                   search_query, reform_failed, relevant_context,
                   formatted_context, citations, citation_numbers,
                   max_retriever_context_length,
                   search_call, retrieve_call, chunk_call, callers,
                   previous_citations, index, passages,
                   passage_titles, passage_urls, suggestion, calls, err>>

\* lines 203-207
Except ==
    /\ pc = "except"
    /\ result' = [result EXCEPT !.answer = ApologyPrefix \o err]
    /\ last_mutation' = "answer"
    /\ exits' = Append(exits, "Error")
    /\ pc' = "finally"
    /\ UNCHANGED <<clock, start_time, question, scores, harmful,
                   search_query, reform_failed, relevant_context,
                   formatted_context, citations, citation_numbers,
                   max_retriever_context_length,
                   search_call, retrieve_call, chunk_call, callers,
                   previous_citations, index, passages,
                   passage_titles, passage_urls, suggestion, calls, err>>

\* variant: the stamp is placed at the end of the try block, so that the
\* handler's path returns without it
Finally_unstamped_on_error ==
    /\ pc = "finally"
    /\ IF exits = <<"Error">>
       THEN UNCHANGED <<result, last_mutation>>
       ELSE /\ result' = Stamp(result)
            /\ last_mutation' = "processing_time"
    /\ pc' = "returned"
    /\ UNCHANGED <<clock, start_time, question, scores, harmful,
                   search_query, reform_failed, relevant_context,
                   formatted_context, citations, citation_numbers,
                   max_retriever_context_length,
                   search_call, retrieve_call, chunk_call, callers,
                   previous_citations, index, passages,
                   passage_titles, passage_urls, suggestion, calls, exits,
                   err>>

\* lines 209-212
Finally ==
    /\ pc = "finally"
    /\ result' = Stamp(result)
    /\ last_mutation' = "processing_time"
    /\ pc' = "returned"
    /\ UNCHANGED <<clock, start_time, question, scores, harmful,
                   search_query, reform_failed, relevant_context,
                   formatted_context, citations, citation_numbers,
                   max_retriever_context_length,
                   search_call, retrieve_call, chunk_call, callers,
                   previous_citations, index, passages,
                   passage_titles, passage_urls, suggestion, calls, exits,
                   err>>

Next ==
    \/ Tick
    \/ \E q \in RawQuestions : Start(q)
    \/ ClassifierRaises
    \/ \E sc \in ClassifierScores : SafetyCheck(sc)
    \/ Declined
    \/ \E ok \in BOOLEAN, g \in GeneratedQueries : Reformulate(ok, g)
    \/ \E w \in SearchWorlds : Search(w)
    \/ RetrieveNothing
    \/ RetrieveRaises
    \/ Retrieve
    \/ NoResults
    \/ CreatePrompt
    \/ \E k \in 0..(Len(relevant_context) - 1) : PromptRaises(k)
    \/ \E answer \in GeneratedAnswers : Generate(answer)
    \/ GenerateRaises
    \/ Except
    \/ Finally

Spec == Init /\ [][Next]_vars

----------------------------------------------------------------------------
(* The safety gate on every score list: the entry of answer up to the     *)
(* decision taken on the classifier's scores                              *)

\* the scores the classifier reports, in hundredths
ScoreValues == {0, 30, 40, 60, 70, 75}

ScoreLists == UNION { [1..n -> ScoreValues] : n \in 0..MaxScores }

NextGate ==
    \/ \E q \in RawQuestions : Start(q)
    \/ \E sc \in ScoreLists : SafetyCheck(sc)
    \/ Declined
    \/ \E ok \in BOOLEAN, g \in GeneratedQueries : Reformulate(ok, g)

SpecGate == Init /\ [][NextGate]_vars

----------------------------------------------------------------------------
(* format_answer_output (ragent/__init__.py): the "## Sources" lines *)

\* one line per citation, labelled with its 1-based position in the list
source_lines(cits) ==
    [i \in 1..Len(cits) |->
        [label |-> i, title |-> cits[i].title, url |-> cits[i].url]]

----------------------------------------------------------------------------
(* Properties *)

Range(seq) == { seq[i] : i \in 1..Len(seq) }

ExitPaths == {"Declined", "NoResults", "Done", "Error"}

\* the entries of relevant_context that _create_prompt gave a bullet
Processed == SubSeq(relevant_context, 1, Len(formatted_context))

\* the urls of a passage sequence, each once, in order of first use
RECURSIVE FirstUseUrls(_)
FirstUseUrls(ctx) ==
    IF ctx = <<>>
    THEN <<>>
    ELSE LET front == FirstUseUrls(SubSeq(ctx, 1, Len(ctx) - 1))
             url == ctx[Len(ctx)].url
         IN  IF url \in Range(front) THEN front ELSE Append(front, url)

\* C1: whatever capability fails during an answer call, no exception
\* escapes answer.
C1_NoExceptionEscapes == pc # "raised"

\* C2: every answer call that returns took exactly one of the exit paths
\* Declined, NoResults, Done, Error, and the last write to the result
\* stamped processing_time with the time elapsed since Start.
C2_StampedLastOnEveryExit ==
    pc = "returned" =>
        /\ Len(exits) = 1
        /\ exits[1] \in ExitPaths
        /\ last_mutation = "processing_time"
        /\ result.processing_time = clock - start_time

C2_Witness ==
    /\ pc = "returned"
    /\ exits = <<"Error">>
    /\ result.processing_time = 1

\* C3: on a non-empty score list the gate flags the question exactly when
\* the mean of the scores is >= 0.5 or some score is >= 0.7; the three
\* score profiles of the specification are decided as it says.
C3_GateIffHighMeanOrOutlier ==
    (pc = "gate" /\ scores # <<>>) =>
        /\ harmful <=>
              \/ SumSeq(scores) * 2 >= Len(scores) * 100
              \/ \E i \in 1..Len(scores) : scores[i] * 10 >= 700
        /\ scores = <<60, 60>> => harmful
        /\ scores = <<30, 30, 75>> => harmful
        /\ scores = <<0, 40>> => ~harmful

C3_Witness ==
    /\ pc = "gate"
    /\ scores = <<60, 60, 60>>
    /\ harmful

\* C4: once the gate has flagged the question, the call issues no capability
\* call but the classifier's, and it returns the refusal message with
\* has_answer false and no citations.
C4_DeclinedWithoutRetrievalOrGeneration ==
    harmful =>
        /\ calls = <<"classifier">>
        /\ pc \in {"gate", "returned"}
        /\ pc = "returned" =>
              /\ result.answer = RefusalMessage
              /\ result.has_answer = FALSE
              /\ result.citations = <<>>

C4_Witness ==
    /\ pc = "returned"
    /\ harmful
    /\ exits = <<"Declined">>
    /\ previous_citations # <<>>

\* C5: when search, retrieve, the prompt build or the answer generation
\* raised, the returned result carries the apology with the error's
\* description, has_answer false and no citations.
C5_ErrorResultIsApology ==
    (pc = "returned" /\ err # "") =>
        /\ result.answer = ApologyPrefix \o err
        /\ result.has_answer = FALSE
        /\ result.citations = <<>>

C5_Witness ==
    /\ pc = "returned"
    /\ err = "generation failed"
    /\ citations # <<>>
    /\ previous_citations # <<>>

\* C6: a failed reformulation is not propagated: the search query is the
\* question, and the call goes on to search before it can reach any exit.
C6_ReformulationFailureFallsBack ==
    reform_failed =>
        /\ search_query = result.question
        /\ pc # "search" => "search" \in Range(calls)
        /\ (pc = "returned" /\ exits = <<"Error">>) =>
              err \in {"source search failed", "ConnectionError",
                       "embedding failed", "prompt failed",
                       "generation failed"}

C6_Witness ==
    /\ reform_failed
    /\ pc = "returned"
    /\ exits = <<"Done">>
    /\ search_query = <<"q">>

\* C7: two processed passages carry the same citation number exactly when
\* they share a url, the first passage of the k-th distinct url carries k,
\* and the numbers issued are 1..k without gaps.
C7_LedgerNumbersByFirstUse ==
    LET urls == FirstUseUrls(Processed) IN
    /\ \A i, j \in 1..Len(Processed) :
          (formatted_context[i].number = formatted_context[j].number)
             <=> (Processed[i].url = Processed[j].url)
    /\ \A i \in 1..Len(Processed) :
          urls[formatted_context[i].number] = Processed[i].url
    /\ { formatted_context[i].number : i \in 1..Len(Processed) }
          = 1..Len(urls)

C7_Witness ==
    /\ pc = "generate"
    /\ [i \in 1..Len(Processed) |-> Processed[i].url] = <<"A", "B", "A">>
    /\ [i \in 1..Len(formatted_context) |-> formatted_context[i].number]
          = <<1, 2, 1>>

\* C8: a Done result has has_answer true and lists the {title, url} of the
\* distinct urls of the processed passages in first-use order, so that the
\* citation at position i is the one numbered i in the context block.
C8_DoneCitationsInFirstUseOrder ==
    (pc = "returned" /\ exits = <<"Done">>) =>
        LET urls == FirstUseUrls(Processed) IN
        /\ result.has_answer = TRUE
        /\ Len(result.citations) = Len(urls)
        /\ \A i \in 1..Len(urls) :
              /\ result.citations[i].url = urls[i]
              /\ \E j \in 1..Len(Processed) :
                    /\ Processed[j].url = urls[i]
                    /\ Processed[j].title = result.citations[i].title
                    /\ formatted_context[j].number = i
              /\ \E c \in Range(citations) :
                    /\ c.number = source_lines(result.citations)[i].label
                    /\ c.url = source_lines(result.citations)[i].url

C8_Witness ==
    /\ pc = "returned"
    /\ exits = <<"Done">>
    /\ result.has_answer = TRUE
    /\ [i \in 1..Len(result.citations) |-> result.citations[i].url]
          = <<"B", "A">>
    /\ Len(Processed) = 3

\* C9: when retrieve returned an empty sequence, generate is not called for
\* an answer and the result carries the "nothing directly relevant" message
\* with has_answer false and no citations.
C9_EmptyRetrievalGivesNoResults ==
    ("retrieve" \in Range(calls) /\ err = "" /\ relevant_context = <<>>) =>
        /\ "generate(prompt)" \notin Range(calls)
        /\ pc \in {"retrieved", "finally", "returned"}
        /\ pc = "returned" =>
              /\ result.answer = NoResultsMessage
              /\ result.has_answer = FALSE
              /\ result.citations = <<>>

C9_Witness ==
    /\ pc = "returned"
    /\ exits = <<"NoResults">>
    /\ index.built
    /\ "embedding" \in Range(calls)
    /\ result.answer = NoResultsMessage

\* C10: the citations of a returned result are urls of passages retrieved in
\* the same call, and the ledger behind a Done result numbers them from 1.
C10_CitationsArePerAnswer ==
    pc = "returned" =>
        /\ \A i \in 1..Len(result.citations) :
              \E j \in 1..Len(relevant_context) :
                 relevant_context[j].url = result.citations[i].url
        /\ exits = <<"Done">> =>
              /\ Len(citations) = Len(result.citations)
              /\ DOMAIN citation_numbers = 1..Len(citations)
              /\ \A i \in 1..Len(citations) :
                    /\ citations[i].number = i
                    /\ citations[i].url = result.citations[i].url
                    /\ citation_numbers[i] = citations[i].url

C10_Witness ==
    /\ pc = "returned"
    /\ exits = <<"Done">>
    /\ previous_citations = <<[title |-> "Beta", url |-> "B"]>>
    /\ result.citations = <<[title |-> "Alpha", url |-> "A"]>>

----------------------------------------------------------------------------
(* The chunker on every bounded content: split_into_passages is called    *)
(* with a content, a max_length and an overlap_sentences and returns.     *)

MaxContentLen == 5

ContentChars == {"a", " ", "\n"}

Contents == UNION { [1..n -> ContentChars] : n \in 0..MaxContentLen }

MaxLengths == 1..ChunkMaxLength

Overlaps == 0..(ChunkOverlap + 1)

\* the variables of an answer call
agent_vars ==
    <<pc, clock, start_time, question, result, scores, harmful, search_query,
      reform_failed, relevant_context, formatted_context, citations,
      citation_numbers, max_retriever_context_length, calls, exits,
      previous_citations, err, last_mutation>>

\* SearchCycleState of the retriever
cycle_vars == <<index, passages, passage_titles, passage_urls, suggestion>>

\* one call of the chunker per behaviour: the function keeps no state
SplitIntoPassages(content, max_length, overlap_sentences) ==
    /\ ~chunk_call.returned
    /\ chunk_call' =
           [returned |-> TRUE, content |-> content,
            max_length |-> max_length,
            overlap_sentences |-> overlap_sentences,
            chunks |-> split_into_passages(content, "T", "U", max_length,
                                           overlap_sentences)]
    /\ UNCHANGED <<agent_vars, cycle_vars, search_call, retrieve_call,
                   callers>>

NextChunk ==
    \E content \in Contents, max_length \in MaxLengths,
       overlap_sentences \in Overlaps :
        SplitIntoPassages(content, max_length, overlap_sentences)

SpecChunk == Init /\ [][NextChunk]_vars

\* paras[i..j] joined by blank lines
RECURSIVE JoinParas(_, _, _)
JoinParas(paras, i, j) ==
    IF i > j THEN <<>>
    ELSE IF i = j THEN paras[i]
    ELSE paras[i] \o <<"\n", "\n">> \o JoinParas(paras, i + 1, j)

\* what the buffer of chunk k was seeded with from the chunk emitted before
OverlapPrefix(chunks, k, overlap) ==
    IF k > 1 /\ 0 < overlap /\ overlap < Len(chunks[k - 1].content)
    THEN SubSeq(chunks[k - 1].content,
                Len(chunks[k - 1].content) - overlap + 1,
                Len(chunks[k - 1].content)) \o <<"\n", "\n">>
    ELSE <<>>

\* chunks k.. are, after their overlap prefixes, the paragraphs j.. whole,
\* once each and in order
RECURSIVE Reassembles(_, _, _, _, _)
Reassembles(chunks, k, paras, j, overlap) ==
    IF k > Len(chunks)
    THEN j > Len(paras)
    ELSE LET c == chunks[k].content
             prefix == OverlapPrefix(chunks, k, overlap)
         IN  /\ Len(c) > Len(prefix)
             /\ SubSeq(c, 1, Len(prefix)) = prefix
             /\ \E m \in 1..(Len(paras) - j + 1) :
                    /\ SubSeq(c, Len(prefix) + 1, Len(c))
                           = JoinParas(paras, j, j + m - 1)
                    /\ Reassembles(chunks, k + 1, paras, j + m, overlap)

(* C11: every passage the chunker emits has length <= max_length, or its  *)
(* content is exactly one paragraph that is itself longer than            *)
(* max_length.                                                            *)
C11_PassageFitsOrIsOneParagraph ==
    chunk_call.returned =>
        \A k \in 1..Len(chunk_call.chunks) :
            LET c == chunk_call.chunks[k].content IN
            \/ Len(c) <= chunk_call.max_length
            \/ /\ Len(c) > chunk_call.max_length
               /\ c \in Range(paragraphs(chunk_call.content))

----------------------------------------------------------------------------
(* One retriever under serialized search and retrieve calls, with the     *)
(* fetch workers of a search call interleaved step by step.               *)

MaxFetches == 2

\* the search calls made on the retriever
MaxSearches == 2

\* ThreadPoolExecutor(max_workers=5)
MaxWorkers == 5

SearchQueries == { <<"q">> }

SearchTopKs == {1, 2}

\* the title lists wikipedia.search can return to a search call
FetchLists ==
    UNION { { c \in [1..n -> SourceTitles] :
                \A i, j \in 1..n : i # j => c[i] # c[j] } :
            n \in 0..MaxFetches }

\* the outcomes of the one or two wikipedia.search calls of a search call
SourceWorlds ==
    [first_ok : {FALSE}, titles : {<<>>}, suggestion : {None},
     second_ok : {FALSE}, retitles : {<<>>}]
    \cup
    [first_ok : {TRUE}, titles : FetchLists, suggestion : {None},
     second_ok : {FALSE}, retitles : {<<>>}]
    \cup
    [first_ok : {TRUE}, titles : {<<>>}, suggestion : Suggestions \ {None},
     second_ok : {FALSE}, retitles : {<<>>}]
    \cup
    [first_ok : {TRUE}, titles : {<<>>}, suggestion : Suggestions \ {None},
     second_ok : {TRUE}, retitles : FetchLists]

PassageLimits == {1, DefaultPassageLimit}

Thresholds == {0, DefaultThreshold}

\* a call of fetch_page(title) the executor has not started
Task(title) ==
    [title |-> title, stage |-> "queued", passages |-> <<>>, outcome |-> ""]

\* a search call that leaves the previous cycle's state in place
cycle_reset_keeps_previous ==
    [index |-> index, passages |-> passages,
     passage_titles |-> passage_titles, passage_urls |-> passage_urls,
     suggestion |-> suggestion]

\* SearchCycleState after lines 42-46
cycle_reset ==
    [index |-> NoIndex, passages |-> <<>>, passage_titles |-> <<>>,
     passage_urls |-> <<>>, suggestion |-> None]

SearchIdle == search_call.pc \in {"idle", "returned", "raised"}

\* search(query, top_k) up to the submission of the fetches: the reset, the
\* source search and the search again on a suggestion
SearchBegin(query, top_k, w) ==
    /\ SearchIdle
    /\ search_call.cycle < MaxSearches
    /\ ~retrieve_call.called
    /\ LET adopted == w.first_ok /\ w.suggestion # None
           failed == ~w.first_ok \/ (adopted /\ ~w.second_ok)
           wiki_search == IF adopted THEN w.retitles ELSE w.titles
           candidates == Take(wiki_search, top_k_ceiling(top_k))
       IN  /\ index' = cycle_reset.index
           /\ passages' = cycle_reset.passages
           /\ passage_titles' = cycle_reset.passage_titles
           /\ passage_urls' = cycle_reset.passage_urls
           /\ suggestion' = IF adopted THEN w.suggestion
                            ELSE cycle_reset.suggestion
           /\ search_call' =
                 [pc |-> IF failed THEN "raised" ELSE "fetching",
                  cycle |-> search_call.cycle + 1,
                  query |-> IF adopted THEN w.suggestion ELSE query,
                  top_k |-> top_k,
                  source_searches |->
                     IF adopted
                     THEN <<SourceSearch(query, top_k, TRUE),
                            SourceSearch(w.suggestion, top_k, FALSE)>>
                     ELSE <<SourceSearch(query, top_k, TRUE)>>,
                  suggested |-> IF adopted THEN w.suggestion ELSE None,
                  stale |-> index.built,
                  fetched |-> {},
                  tasks |-> IF failed THEN <<>>
                            ELSE [i \in 1..Len(candidates) |->
                                     Task(candidates[i])],
                  completed |-> <<>>,
                  all_passages |-> <<>>,
                  indexed |-> <<>>,
                  raised |-> IF failed THEN "source search failed" ELSE ""]
    /\ retrieve_call' = NoRetrieveCall
    /\ UNCHANGED <<agent_vars, chunk_call, callers>>

\* the fetches a worker thread is running
Running ==
    { i \in DOMAIN search_call.tasks :
        search_call.tasks[i].stage \in {"page", "checked"} }

\* fetch_page of task i returns (or raises): its future completes
Completed(i, page_passages, outcome) ==
    [search_call EXCEPT !.tasks[i].stage = "done",
                        !.tasks[i].passages = page_passages,
                        !.tasks[i].outcome = outcome,
                        !.completed = Append(@, i)]

\* a worker takes the next submitted fetch: the first test of the cap and
\* wikipedia.page(title)
FetchBegin(i) ==
    /\ search_call.pc = "fetching"
    /\ i \in DOMAIN search_call.tasks
    /\ search_call.tasks[i].stage = "queued"
    /\ \A j \in 1..(i - 1) : search_call.tasks[j].stage # "queued"
    /\ Cardinality(Running) < MaxWorkers
    /\ LET page == WikiPage(search_call.tasks[i].title) IN
       search_call' =
          IF Cardinality(search_call.fetched) >= search_call.top_k
          THEN Completed(i, <<>>, "skipped")
          ELSE IF page.kind \in {"DisambiguationError", "PageError"}
          THEN Completed(i, <<>>, "absorbed")
          ELSE IF page.kind # "page"
          THEN Completed(i, <<>>, "raised")
          ELSE [search_call EXCEPT !.tasks[i].stage = "page"]
    /\ UNCHANGED <<agent_vars, cycle_vars, retrieve_call, chunk_call, callers>>

\* the test of line 76 on the shared dict
FetchCheck(i) ==
    /\ search_call.pc = "fetching"
    /\ i \in DOMAIN search_call.tasks
    /\ search_call.tasks[i].stage = "page"
    /\ LET page == WikiPage(search_call.tasks[i].title) IN
       search_call' =
          IF \/ page.url \in search_call.fetched
             \/ Cardinality(search_call.fetched) >= search_call.top_k
          THEN Completed(i, <<>>, "skipped")
          ELSE [search_call EXCEPT !.tasks[i].stage = "checked"]
    /\ UNCHANGED <<agent_vars, cycle_vars, retrieve_call, chunk_call, callers>>

\* the write of line 78 and the split of the page
FetchRecord(i) ==
    /\ search_call.pc = "fetching"
    /\ i \in DOMAIN search_call.tasks
    /\ search_call.tasks[i].stage = "checked"
    /\ LET page == WikiPage(search_call.tasks[i].title) IN
       search_call' =
          [Completed(i, PagePassages[search_call.tasks[i].title], "ok")
              EXCEPT !.fetched = @ \cup {page.url}]
    /\ UNCHANGED <<agent_vars, cycle_vars, retrieve_call, chunk_call, callers>>

\* results gathered in the order the fetches completed
results_order_by_completion(tasks, completed) == completed

\* the order in which list(executor.map(...)) yields the results
results_order(tasks, completed) == [i \in 1..Len(tasks) |-> i]

\* for page_passages in results: all_passages.extend(page_passages)
RECURSIVE extend_all(_, _, _)
extend_all(tasks, order, i) ==
    IF i > Len(order)
    THEN <<>>
    ELSE tasks[order[i]].passages \o extend_all(tasks, order, i + 1)

\* list(executor.map(...)) once every fetch has completed: the results are
\* concatenated, or the exception of a fetch is raised again and leaves
\* search
SearchGather ==
    /\ search_call.pc = "fetching"
    /\ \A i \in DOMAIN search_call.tasks :
          search_call.tasks[i].stage = "done"
    /\ LET tasks == search_call.tasks IN
       search_call' =
          IF \E i \in DOMAIN tasks : tasks[i].outcome = "raised"
          THEN [search_call EXCEPT !.pc = "raised",
                                   !.raised = "ConnectionError"]
          ELSE [search_call EXCEPT
                   !.pc = "gathered",
                   !.all_passages =
                       extend_all(tasks,
                                  results_order(tasks,
                                                search_call.completed), 1)]
    /\ UNCHANGED <<agent_vars, cycle_vars, retrieve_call, chunk_call, callers>>

\* what is left of a search call when it exits: its fetches and their dict
\* are gone
Exited(call, exit_pc, unique, raised) ==
    [call EXCEPT !.pc = exit_pc, !.fetched = {}, !.tasks = <<>>,
                 !.completed = <<>>, !.indexed = unique, !.raised = raised]

\* the rest of search: the passages are deduplicated and indexed, and the
\* call returns or raises
SearchIndex(encode_ok) ==
    /\ search_call.pc = "gathered"
    /\ LET all == search_call.all_passages
           unique == unique_passages(all, 1)
           built == create_index(unique, encode_ok)
       IN  IF all = <<>>
           THEN /\ search_call' = Exited(search_call, "returned", <<>>, "")
                /\ UNCHANGED cycle_vars
           ELSE /\ index' = built.index
                /\ passages' = built.passages
                /\ passage_titles' = built.passage_titles
                /\ passage_urls' = built.passage_urls
                /\ search_call' =
                      Exited(search_call,
                             IF built.raised = "" THEN "returned"
                             ELSE "raised",
                             unique, built.raised)
                /\ UNCHANGED suggestion
    /\ UNCHANGED <<agent_vars, retrieve_call, chunk_call, callers>>

\* retrieve(query, passage_limit, threshold) after the search calls; it
\* changes nothing of the retriever, so one call is recorded
RetrieveCall(passage_limit, threshold) ==
    /\ SearchIdle
    /\ ~retrieve_call.called
    /\ IF ~index.built \/ passages = <<>>
       THEN retrieve_call' =
               [called |-> TRUE, query |-> search_call.query,
                passage_limit |-> passage_limit,
                threshold |-> threshold, dist |-> <<>>, order |-> <<>>,
                results |-> <<>>]
       ELSE \E dist \in [1..Len(passages) -> Distances] :
               \E order \in NearestOrders(dist, Len(passages),
                                          Min(passage_limit,
                                              Len(passages))) :
                  retrieve_call' =
                     [called |-> TRUE, query |-> search_call.query,
                      passage_limit |-> passage_limit,
                      threshold |-> threshold, dist |-> dist,
                      order |-> order,
                      results |-> retrieve(passage_limit, threshold, dist,
                                           order)]
    /\ UNCHANGED <<agent_vars, cycle_vars, search_call, chunk_call, callers>>

NextSearch ==
    \/ \E query \in SearchQueries, top_k \in SearchTopKs,
          w \in SourceWorlds : SearchBegin(query, top_k, w)
    \/ \E i \in 1..(MaxFetches + 1) : FetchBegin(i)
    \/ \E i \in 1..(MaxFetches + 1) : FetchCheck(i)
    \/ \E i \in 1..(MaxFetches + 1) : FetchRecord(i)
    \/ SearchGather
    \/ \E encode_ok \in BOOLEAN : SearchIndex(encode_ok)
    \/ \E passage_limit \in PassageLimits, threshold \in Thresholds :
          RetrieveCall(passage_limit, threshold)

SpecSearch == Init /\ [][NextSearch]_vars

\* the position of the first passage of all_passages with this content
FirstWith(all, content) ==
    CHOOSE i \in 1..Len(all) :
        /\ all[i].content = content
        /\ \A j \in 1..(i - 1) : all[j].content # content

\* the stored passage at position idx of the parallel arrays
Stored(idx) ==
    [content |-> passages[idx], title |-> passage_titles[idx],
     url |-> passage_urls[idx]]

(* C13: retrieve returns at most min(passage_limit, number of passages)   *)
(* entries, every one with a score above the threshold, nearest first,    *)
(* and each with the content, title and url stored at one index position  *)
(* and the score 1 - distance/100 of that position.                       *)
C13_RetrieveContract ==
    retrieve_call.called =>
        LET r == retrieve_call.results IN
        /\ Len(r) <= Min(retrieve_call.passage_limit, Len(passages))
        /\ \A i \in 1..Len(r) : r[i].score > retrieve_call.threshold
        /\ \A i, j \in 1..Len(r) : i < j => r[i].score >= r[j].score
        /\ \A i \in 1..Len(r) :
              \E idx \in 1..Len(passages) :
                 /\ [content |-> r[i].content, title |-> r[i].title,
                     url |-> r[i].url] = Stored(idx)
                 /\ r[i].score = DistanceScale - retrieve_call.dist[idx]

\* three passages of two pages, one of them at the threshold and left out,
\* the other two returned nearest first
C13_Witness ==
    /\ retrieve_call.called
    /\ index.built
    /\ Len(passages) = 3
    /\ Len(retrieve_call.dist) = 3
    /\ retrieve_call.threshold = DefaultThreshold
    /\ \E idx \in 1..3 : DistanceScale - retrieve_call.dist[idx]
                            = DefaultThreshold
    /\ Len(retrieve_call.results) = 2
    /\ retrieve_call.results[1].title # retrieve_call.results[2].title

(* C14: the passages search indexes hold every distinct content of the    *)
(* concatenated list exactly once, with the title and url of its first    *)
(* occurrence, in the order of the first occurrences.                     *)
C14_DedupKeepsFirstOccurrence ==
    (search_call.pc \in {"returned", "raised"}
        /\ search_call.all_passages # <<>>) =>
        LET all == search_call.all_passages
            ix == search_call.indexed
        IN  /\ \A i \in 1..Len(all) :
                  Cardinality({ k \in 1..Len(ix) :
                                  ix[k].content = all[i].content }) = 1
            /\ \A k \in 1..Len(ix) : ix[k] = all[FirstWith(all, ix[k].content)]
            /\ \A k, l \in 1..Len(ix) :
                  k < l => FirstWith(all, ix[k].content)
                              < FirstWith(all, ix[l].content)
            /\ Len(passages) = Len(ix)
            /\ \A k \in 1..Len(ix) : passages[k] = ix[k].content

\* the text of PageBeta came twice, first under the url of the mirror
C14_Witness ==
    /\ search_call.pc = "returned"
    /\ Len(search_call.all_passages) = 2
    /\ search_call.all_passages[1].content
          = search_call.all_passages[2].content
    /\ search_call.all_passages[1].url = "C"
    /\ search_call.all_passages[2].url = "B"
    /\ passage_urls = <<"C">>

\* the concatenation of the passages of the tasks from position i on
RECURSIVE InCandidateOrder(_, _)
InCandidateOrder(tasks, i) ==
    IF i > Len(tasks) THEN <<>>
    ELSE tasks[i].passages \o InCandidateOrder(tasks, i + 1)

\* the tasks whose fetch passed both tests and returned the page's passages
Contributors ==
    { i \in DOMAIN search_call.tasks : search_call.tasks[i].outcome = "ok" }

\* the tasks whose wikipedia.page call failed
FailedFetches ==
    { i \in DOMAIN search_call.tasks :
        WikiPage(search_call.tasks[i].title).kind # "page"
        /\ search_call.tasks[i].stage = "done"
        /\ search_call.tasks[i].outcome # "skipped" }

(* C15: after serialized search calls, retrieve returns only passages     *)
(* indexed by the most recent search call, nothing if that call raised    *)
(* from the source search or found no passage, and the suggestion is the  *)
(* one of the most recent call.                                           *)
C15_RetrieveSeesOnlyLatestSearch ==
    /\ retrieve_call.called =>
          /\ \A i \in 1..Len(retrieve_call.results) :
                \E k \in 1..Len(search_call.indexed) :
                   [content |-> retrieve_call.results[i].content,
                    title |-> retrieve_call.results[i].title,
                    url |-> retrieve_call.results[i].url]
                       = search_call.indexed[k]
          /\ (search_call.raised = "source search failed"
                 \/ search_call.indexed = <<>>)
                => retrieve_call.results = <<>>
    /\ SearchIdle => suggestion = search_call.suggested

\* an earlier call left an index, the most recent one failed in the source
\* search, and retrieve was called
C15_Witness ==
    /\ retrieve_call.called
    /\ search_call.cycle = 2
    /\ search_call.stale
    /\ search_call.raised = "source search failed"
    /\ retrieve_call.results = <<>>

(* C16: in one search call at most top_k distinct urls contribute         *)
(* passages and no url contributes more than once.                        *)
C16_UrlCapAndOncePerUrl ==
    /\ Cardinality({ WikiPage(search_call.tasks[i].title).url :
                       i \in Contributors }) <= search_call.top_k
    /\ \A i, j \in Contributors :
          i # j => WikiPage(search_call.tasks[i].title).url
                      # WikiPage(search_call.tasks[j].title).url

(* C17: while no search call is in progress the passage, title and url    *)
(* arrays have equal length and hold, position by position, the fields    *)
(* of one passage; the index, when present, holds the vector of every     *)
(* passage in the same order and the passage list is not empty.           *)
C17_ArraysAndIndexAligned ==
    SearchIdle =>
        /\ Len(passage_titles) = Len(passages)
        /\ Len(passage_urls) = Len(passages)
        /\ Len(search_call.indexed) = Len(passages)
        /\ \A i \in 1..Len(passages) : Stored(i) = search_call.indexed[i]
        /\ index.built =>
              /\ passages # <<>>
              /\ Len(index.vectors) = Len(passages)
              /\ \A i \in 1..Len(passages) :
                    index.vectors[i] = Embed(passages[i])

\* an index over the passages of two pages
C17_Witness ==
    /\ search_call.pc = "returned"
    /\ index.built
    /\ Len(passages) = 3
    /\ passage_titles[1] # passage_titles[3]
    /\ passage_urls[1] # passage_urls[3]

(* C18: after a search call exits, the arrays and the index are all       *)
(* populated, or the arrays are all empty and the index is absent.        *)
C18_CycleStateAllOrNothing ==
    search_call.pc \in {"returned", "raised"} =>
        \/ /\ index.built
           /\ passages # <<>>
           /\ passage_titles # <<>>
           /\ passage_urls # <<>>
        \/ /\ ~index.built
           /\ passages = <<>>
           /\ passage_titles = <<>>
           /\ passage_urls = <<>>

(* C19: when the fetch of a page fails, search does not raise: the        *)
(* candidate contributes no passage and the passages of the other         *)
(* candidates are gathered for the index.                                 *)
C19_FetchFailureIsNonFatal ==
    (search_call.pc \in {"gathered", "raised"} /\ FailedFetches # {}) =>
        /\ search_call.pc = "gathered"
        /\ search_call.raised = ""
        /\ \A i \in FailedFetches : search_call.tasks[i].passages = <<>>
        /\ \A i \in Contributors :
              Range(search_call.tasks[i].passages)
                  \subseteq Range(search_call.all_passages)

(* C20: the concatenated list holds the passages of the candidates in     *)
(* the order of the candidate list, whatever order the fetches completed  *)
(* in.                                                                    *)
C20_ConcatenatedInCandidateOrder ==
    search_call.pc = "gathered" =>
        search_call.all_passages = InCandidateOrder(search_call.tasks, 1)

\* the second candidate's fetch completed first and both gave passages
C20_Witness ==
    /\ search_call.pc = "gathered"
    /\ search_call.completed = <<2, 1>>
    /\ Contributors = {1, 2}
    /\ search_call.all_passages[1].url
          = WikiPage(search_call.tasks[1].title).url
    /\ search_call.tasks[1].title = "Alpha"
    /\ search_call.tasks[2].title = "Beta"

----------------------------------------------------------------------------
(* The context block and the result of answer *)

\* the length of the context block after its first k bullets
BlockLen(k) == FormattedLen(SubSeq(formatted_context, 1, k))

(* C24: the passages that get a bullet are the prefix of the context that *)
(* ends at the first passage after whose bullet the block is longer than  *)
(* the maximum, or the whole context; a non-empty context gets at least   *)
(* one bullet; the ledger holds exactly the distinct urls of that prefix. *)
C24_BulletsAreThePrefixWithinBudget ==
    pc = "generate" =>
        LET n == Len(formatted_context) IN
        /\ n >= 1
        /\ n <= Len(relevant_context)
        /\ \A i \in 1..n :
              formatted_context[i].text
                 = BulletText(relevant_context[i].content)
        /\ \A k \in 1..(n - 1) :
              BlockLen(k) <= max_retriever_context_length
        /\ n < Len(relevant_context) =>
              BlockLen(n) > max_retriever_context_length
        /\ [i \in 1..Len(citations) |-> citations[i].url]
              = FirstUseUrls(SubSeq(relevant_context, 1, n))

\* the first bullet fills the maximum exactly, the second exceeds it and the
\* third passage, of another url, is dropped
C24_Witness ==
    /\ pc = "generate"
    /\ Len(relevant_context) = 3
    /\ Len(formatted_context) = 2
    /\ BlockLen(1) = max_retriever_context_length
    /\ relevant_context[3].url \notin
          { citations[i].url : i \in 1..Len(citations) }

(* C25: a returned result has citations exactly when has_answer is true:  *)
(* Declined, NoResults and Error results carry none, whatever the ledger  *)
(* still holds, and a Done result carries at least one.                   *)
C25_CitationsIffHasAnswer ==
    pc = "returned" =>
        /\ (result.citations # <<>>) <=> (result.has_answer = TRUE)
        /\ exits \in {<<"Declined">>, <<"NoResults">>, <<"Error">>} =>
              result.citations = <<>>
        /\ exits = <<"Done">> => Len(result.citations) >= 1

\* an Error result returned while the ledger holds the citations of the
\* answer before
C25_Witness ==
    /\ pc = "returned"
    /\ exits = <<"Error">>
    /\ previous_citations # <<>>
    /\ citations # <<>>
    /\ result.citations = <<>>
    /\ result.has_answer = FALSE

----------------------------------------------------------------------------
(* The fetches of one search call against the fetches run one by one *)

\* the candidate titles of the search call in progress
CandidateTitles ==
    [i \in 1..Len(search_call.tasks) |-> search_call.tasks[i].title]

(* C21: for a candidate list and a title-to-page mapping, the passage     *)
(* list search indexes is the same in every interleaving of the fetches:  *)
(* it is the list that the fetches give when they run one after another   *)
(* in candidate order.                                                    *)
C21_IndexedListIsInterleavingIndependent ==
    search_call.pc = "gathered" =>
        unique_passages(search_call.all_passages, 1)
           = unique_passages(
                fetch_all(CandidateTitles, 1, {},
                          search_call.top_k).all_passages, 1)

----------------------------------------------------------------------------
(* The spelling suggestion of the source search *)

(* C22: when the source search reports a suggestion, search searches      *)
(* again with the suggestion and the same result count, records the       *)
(* suggestion on the retriever and returns it as the query; answer copies *)
(* it into result.suggestion and retrieves with it. Without a suggestion  *)
(* there is one source search, the query passed in is returned and        *)
(* retrieved with, and result.suggestion stays empty.                     *)
C22_SuggestionIsAdopted ==
    LET ss == search_call.source_searches
        reported == search_call.suggested
        returned == search_call.pc = "returned"
    IN
    /\ (ss # <<>> /\ reported # None) =>
          /\ Len(ss) = 2
          /\ ss[1].query = search_query
          /\ ss[2].query = reported
          /\ ss[2].results = ss[1].results
          /\ suggestion = reported
          /\ returned =>
                /\ search_call.query = reported
                /\ question = reported
                /\ result.suggestion = reported
          /\ retrieve_call.called => retrieve_call.query = reported
    /\ (ss # <<>> /\ reported = None) =>
          /\ Len(ss) = 1
          /\ ss[1].query = search_query
          /\ suggestion = None
          /\ result.suggestion = None
          /\ returned =>
                /\ search_call.query = search_query
                /\ question = search_query
          /\ retrieve_call.called => retrieve_call.query = search_query

\* a Done answer whose reformulated query was corrected by a suggestion
C22_Witness ==
    /\ pc = "returned"
    /\ exits = <<"Done">>
    /\ search_query = <<"g">>
    /\ Len(search_call.source_searches) = 2
    /\ search_call.suggested = <<"s">>
    /\ retrieve_call.query = <<"s">>
    /\ result.suggestion = <<"s">>
    /\ result.question = <<"q">>

----------------------------------------------------------------------------
(* Two answer calls on one retriever: each runs retriever.search and then *)
(* retriever.retrieve (agent.py lines 182-188) on the shared              *)
(* SearchCycleState, with no lock around the pair.                        *)

\* what the source and the embedding model give to a search call here
ConcurrentWorlds ==
    { w \in SearchWorlds :
        /\ w.suggestion = None
        /\ w.encode_ok = w.first_ok
        /\ w.titles \in {<<>>, <<"Alpha">>, <<"Beta">>} }

\* the passages a search call handed to _create_index
IndexedBy(s) ==
    [i \in 1..Len(s.passages) |->
        Passage(s.passages[i], s.passage_titles[i], s.passage_urls[i])]

\* variant: a search waits while another call is between its search and its
\* retrieve
CallerSearchReset_locked(c) ==
    /\ callers[c].pc = "idle"
    /\ \A d \in Callers \ {c} : callers[d].pc \notin {"searching", "searched"}
    /\ index' = cycle_reset.index
    /\ passages' = cycle_reset.passages
    /\ passage_titles' = cycle_reset.passage_titles
    /\ passage_urls' = cycle_reset.passage_urls
    /\ suggestion' = cycle_reset.suggestion
    /\ callers' = [callers EXCEPT ![c] = [NoCaller EXCEPT !.pc = "searching"]]
    /\ UNCHANGED <<agent_vars, search_call, retrieve_call, chunk_call>>

\* line 182, the entry of search: lines 42-46 of the retriever
CallerSearchReset(c) ==
    /\ callers[c].pc = "idle"
    /\ index' = cycle_reset.index
    /\ passages' = cycle_reset.passages
    /\ passage_titles' = cycle_reset.passage_titles
    /\ passage_urls' = cycle_reset.passage_urls
    /\ suggestion' = cycle_reset.suggestion
    /\ callers' = [callers EXCEPT ![c] = [NoCaller EXCEPT !.pc = "searching"]]
    /\ UNCHANGED <<agent_vars, search_call, retrieve_call, chunk_call>>

\* the rest of search in the world w: what it assigns replaces what the
\* retriever holds, what it does not assign stays
CallerSearchBuild(c, w) ==
    /\ callers[c].pc = "searching"
    /\ LET s == search(<<"q">>, AnswerTopK, w) IN
       /\ passages' = IF s.passages # <<>> THEN s.passages ELSE passages
       /\ passage_titles' = IF s.passages # <<>> THEN s.passage_titles
                            ELSE passage_titles
       /\ passage_urls' = IF s.passages # <<>> THEN s.passage_urls
                          ELSE passage_urls
       /\ index' = IF s.index.built THEN s.index ELSE index
       /\ callers' = [callers EXCEPT
                         ![c] = [pc |-> IF s.raised = "" THEN "searched"
                                        ELSE "failed",
                                 indexed |-> IndexedBy(s),
                                 results |-> <<>>]]
    /\ UNCHANGED <<agent_vars, suggestion, search_call, retrieve_call,
                   chunk_call>>

\* line 188: retrieve on whatever the retriever holds now
CallerRetrieve(c) ==
    /\ callers[c].pc = "searched"
    /\ IF ~index.built \/ passages = <<>>
       THEN callers' = [callers EXCEPT ![c].pc = "retrieved",
                                       ![c].results = <<>>]
       ELSE \E dist \in [1..Len(passages) -> Distances] :
               \E order \in NearestOrders(dist, Len(passages),
                                          Min(DefaultPassageLimit,
                                              Len(passages))) :
                  callers' =
                     [callers EXCEPT
                         ![c].pc = "retrieved",
                         ![c].results =
                             retrieve(DefaultPassageLimit, DefaultThreshold,
                                      dist, order)]
    /\ UNCHANGED <<agent_vars, cycle_vars, search_call, retrieve_call,
                   chunk_call>>

\* the answer call returns
CallerReturn(c) ==
    /\ callers[c].pc \in {"retrieved", "failed"}
    /\ callers' = [callers EXCEPT ![c] = NoCaller]
    /\ UNCHANGED <<agent_vars, cycle_vars, search_call, retrieve_call,
                   chunk_call>>

NextConcurrent ==
    \E c \in Callers :
        \/ CallerSearchReset(c)
        \/ \E w \in ConcurrentWorlds : CallerSearchBuild(c, w)
        \/ CallerRetrieve(c)
        \/ CallerReturn(c)

SpecConcurrent == Init /\ [][NextConcurrent]_vars

\* the entries of a caller's results that its own search did not index
ForeignResults(c) ==
    { i \in 1..Len(callers[c].results) :
        Passage(callers[c].results[i].content, callers[c].results[i].title,
                callers[c].results[i].url) \notin Range(callers[c].indexed) }

(* C23: nothing keeps a second answer call from entering search while a   *)
(* first one is between its search and its retrieve, so the first call's  *)
(* retrieve can return entries its own search did not index, or none.     *)
C23_NoLockBetweenSearchAndRetrieve ==
    \A c, d \in Callers :
        (c # d /\ callers[c].pc = "searched" /\ callers[d].pc = "idle")
            => ENABLED CallerSearchReset(d)

\* the first call indexed passages, and its retrieve returned passages of
\* the second call's search only
C23_Witness ==
    /\ callers["first"].pc = "retrieved"
    /\ callers["first"].indexed # <<>>
    /\ callers["first"].results # <<>>
    /\ ForeignResults("first") = 1..Len(callers["first"].results)
    /\ callers["second"].pc = "searched"

====
